---- MODULE Spec2Model ----
(***************************************************************************)
(* Model of the Physics2 sandbox: the oriented-rectangle collider, the     *)
(* swept collider, GJK, EPA and App::fixed_update.                         *)
(*                                                                         *)
(* Numbers.  The program computes in f32.  The model computes exactly on   *)
(* an integer lattice:                                                     *)
(*   - one length unit is half the EPA tolerance 0.001 (EPSILON = 2), so   *)
(*     that the correction shared by two dynamic bodies is on the lattice; *)
(*   - a rotation is counted in quarter turns, so that cos and sin are     *)
(*     exactly 0, 1 or -1;                                                 *)
(*   - a time step is a whole number of time units;                        *)
(*   - a direction is kept unnormalised (every use of a normalised         *)
(*     direction in the program is a comparison of dot products or a       *)
(*     projection, both computed here on the unnormalised vector with its  *)
(*     squared length); normalising the zero vector gives NaN in the       *)
(*     program, and a comparison with NaN is false: the model says so      *)
(*     where it happens;                                                   *)
(*   - a quotient that is not a lattice point is rounded toward zero.      *)
(***************************************************************************)
EXTENDS Integers, Sequences, FiniteSets, TLC

\* ------------------------------------------------------------------------
\* cgmath::Vector2 and the few operations the program uses
\* ------------------------------------------------------------------------
vec2(x, y) == <<x, y>>

\* the element of a singleton: Only({e(x) : x \in {v}}) is e(v) with v
\* computed once, as a `let x = v;` of the program computes it
Only(S) == CHOOSE x \in S : TRUE

Add(a, b) == <<a[1] + b[1], a[2] + b[2]>>

Sub(a, b) == <<a[1] - b[1], a[2] - b[2]>>

Neg(a) == <<-a[1], -a[2]>>

Scale(a, k) == <<a[1] * k, a[2] * k>>

dot(a, b) == a[1] * b[1] + a[2] * b[2]

Abs(n) == IF n < 0 THEN -n ELSE n

\* f32 division is symmetric in the sign of the dividend; on the lattice the
\* quotient is rounded toward zero
Quot(n, k) == IF n < 0 THEN -((-n) \div k) ELSE n \div k

DivVec(a, k) == <<Quot(a[1], k), Quot(a[2], k)>>

RECURSIVE Gcd(_, _)
Gcd(m, n) == IF n = 0 THEN m ELSE Gcd(n, m % n)

\* the direction of a vector: the vector divided by the gcd of its
\* coordinates, a positive rescaling that keeps the products small.  Every
\* use of a direction below is positively homogeneous in it.
Dir(a) ==
    LET g == Gcd(Abs(a[1]), Abs(a[2]))
    IN  IF g = 0 THEN a ELSE <<a[1] \div g, a[2] \div g>>

Sign(n) == IF n > 0 THEN 1 ELSE IF n < 0 THEN -1 ELSE 0

\* (a x b) x c for vectors lifted to z = 0, projected back with .xy(), as a
\* direction: with k the z coordinate of a x b it is k * (-c.y, c.x)
TripleCross(a, b, c) ==
    LET k == Sign(a[1] * b[2] - a[2] * b[1])
    IN  Dir(<<-(k * c[2]), k * c[1]>>)

RECURSIVE ISqrtIn(_, _, _)
\* the largest r in lo..hi with r * r <= n, by bisection
ISqrtIn(n, lo, hi) ==
    IF lo >= hi THEN lo
    ELSE LET mid == (lo + hi + 1) \div 2
         IN  IF mid * mid <= n THEN ISqrtIn(n, mid, hi) ELSE ISqrtIn(n, lo, mid - 1)

\* magnitude of a lattice vector, from its squared length (rounded down
\* when the vector is not axis-aligned)
ISqrt(n) == ISqrtIn(n, 0, IF n < 46340 THEN n ELSE 46340)

\* ------------------------------------------------------------------------
\* lib.rs
\* ------------------------------------------------------------------------
MAX_PHYSICS_ITERATIONS == 100

\* the literal 0.001 of epa, in length units
EPSILON == 2

\* ------------------------------------------------------------------------
\* quad.rs
\* ------------------------------------------------------------------------
Cos(r) == CASE r % 4 = 0 -> 1 [] r % 4 = 2 -> -1 [] OTHER -> 0

Sin(r) == CASE r % 4 = 1 -> 1 [] r % 4 = 3 -> -1 [] OTHER -> 0

Quad(p, v, r, av, s, c, dyn) ==
    [position |-> p, velocity |-> v, rotation |-> r, angular_velocity |-> av,
     scale |-> s, color |-> c, dynamic |-> dyn]

\* the four corners in the order of the points array: bottom-left, top-left,
\* bottom-right, top-right, rotated by -rotation and translated
QuadPoints(q) ==
    LET hx == q.scale[1] \div 2
        hy == q.scale[2] \div 2
        local == << <<-hx, -hy>>, <<-hx, hy>>, <<hx, -hy>>, <<hx, hy>> >>
        c == Cos(-q.rotation)
        s == Sin(-q.rotation)
        rot(p) == <<p[1] * c - p[2] * s, p[2] * c + p[1] * s>>
    IN  [i \in 1..4 |-> Add(rot(local[i]), q.position)]

RECURSIVE LastMax(_, _, _, _)
\* faulty variant of FirstMax: `>=` for `>`
LastMax(points, direction, i, current) ==
    IF i > Len(points) THEN current
    ELSE LastMax(points, direction, i + 1,
                 IF dot(points[i], direction) >= dot(current, direction)
                 THEN points[i] ELSE current)

RECURSIVE FirstMax(_, _, _, _)
\* the loop of furthest_point_in_direction: keep the current point unless a
\* later one has a strictly larger dot product
FirstMax(points, direction, i, current) ==
    IF i > Len(points) THEN current
    ELSE FirstMax(points, direction, i + 1,
                  IF dot(points[i], direction) > dot(current, direction)
                  THEN points[i] ELSE current)

QuadFurthest(q, direction) ==
    LET points == QuadPoints(q)
    IN  FirstMax(points, direction, 2, points[1])

\* ------------------------------------------------------------------------
\* sweeping_collider.rs and the Collider trait
\* ------------------------------------------------------------------------
QuadShape(q) == [kind |-> "quad", collider |-> q]

SweepingCollider(q, a, b) ==
    [kind |-> "sweep", collider |-> q, position_a |-> a, position_b |-> b]

\* twice Collider::center(): the midpoint of a sweep is a half lattice point
center2(s) ==
    IF s.kind = "quad" THEN Scale(s.collider.position, 2)
    ELSE Add(s.position_a, s.position_b)

\* faulty variant of SweepFurthest: the center of the wrapped shape is not
\* taken off
SweepOfPoints(s, direction) ==
    LET point_a == Add(QuadFurthest(s.collider, direction), s.position_a)
        point_b == Add(QuadFurthest(s.collider, direction), s.position_b)
    IN  IF dot(point_a, direction) > dot(point_b, direction)
        THEN point_a ELSE point_b

SweepFurthest(s, direction) ==
    LET offset == Sub(QuadFurthest(s.collider, direction), s.collider.position)
        point_a == Add(offset, s.position_a)
        point_b == Add(offset, s.position_b)
    IN  IF dot(point_a, direction) > dot(point_b, direction)
        THEN point_a ELSE point_b

furthest_point_in_direction(s, direction) ==
    IF s.kind = "quad" THEN QuadFurthest(s.collider, direction)
    ELSE SweepFurthest(s, direction)

\* ------------------------------------------------------------------------
\* collision.rs: support and gjk
\* ------------------------------------------------------------------------
support(s1, s2, d) ==
    Sub(furthest_point_in_direction(s1, d), furthest_point_in_direction(s2, Neg(d)))

\* simplex = <<b, a>>: the new direction, the simplex is kept
line_case(simplex) ==
    LET b == simplex[1]
        a == simplex[2]
        ab == Sub(b, a)
        ao == Neg(a)
    IN  [done |-> FALSE, simplex |-> simplex, d |-> TripleCross(ab, ao, ab)]

\* faulty variant of triangle_case: no point is removed from the simplex
TriangleKeepingAll(simplex, d) ==
    [done |-> FALSE, simplex |-> simplex,
     d |-> TripleCross(Sub(simplex[1], simplex[3]), Sub(simplex[2], simplex[3]),
                       Sub(simplex[2], simplex[3]))]

\* faulty variant of triangle_case: the simplex is never accepted
TriangleRetrying(simplex, d) ==
    [done |-> FALSE, simplex |-> <<simplex[2], simplex[3]>>, d |-> Neg(d)]

\* faulty variant of triangle_case: the two region tests are missing
TriangleAccepted(simplex, d) == [done |-> TRUE, simplex |-> simplex, d |-> d]

\* simplex = <<c, b, a>>
triangle_case(simplex, d) ==
    LET c == simplex[1]
        b == simplex[2]
        a == simplex[3]
        ab == Sub(b, a)
        ac == Sub(c, a)
        ao == Neg(a)
        ab_perp == TripleCross(ac, ab, ab)
        ac_perp == TripleCross(ab, ac, ac)
    IN  IF dot(ab_perp, ao) > 0
        THEN [done |-> FALSE, simplex |-> <<b, a>>, d |-> ab_perp]
        ELSE IF dot(ac_perp, ao) > 0
        THEN [done |-> FALSE, simplex |-> <<c, a>>, d |-> ac_perp]
        ELSE [done |-> TRUE, simplex |-> simplex, d |-> d]

handle_simplex(simplex, d) ==
    IF Len(simplex) = 2 THEN line_case(simplex) ELSE triangle_case(simplex, d)

RECURSIVE GjkLoop(_, _, _, _, _)
\* the loop of gjk.  The loop has no cap of its own; it is deterministic, so
\* it runs forever exactly when a (simplex, d) pair comes back: "hang".
GjkLoop(s1, s2, simplex, d, seen) ==
    LET a == support(s1, s2, d)
    IN  IF <<simplex, d>> \in seen THEN [kind |-> "hang"]
        ELSE IF dot(a, d) < 0 THEN [kind |-> "none"]
        ELSE LET h == handle_simplex(Append(simplex, a), d)
             IN  IF h.done THEN [kind |-> "some", simplex |-> h.simplex]
                 ELSE GjkLoop(s1, s2, h.simplex, h.d, seen \cup {<<simplex, d>>})

\* faulty variant of gjk: the test `dot(a, d) < 0.0` is missing, the first
\* three support points are the simplex
GjkUntested(s1, s2) ==
    LET d0 == Dir(Sub(center2(s2), center2(s1)))
        c == support(s1, s2, d0)
        b == support(s1, s2, Neg(c))
        a == support(s1, s2, line_case(<<c, b>>).d)
    IN  [kind |-> "some", simplex |-> <<c, b, a>>]

gjk(s1, s2) ==
    LET d0 == Dir(Sub(center2(s2), center2(s1)))
        first == support(s1, s2, d0)
    IN  GjkLoop(s1, s2, <<first>>, Neg(first), {})

\* ------------------------------------------------------------------------
\* collision.rs: epa and get_collision
\* ------------------------------------------------------------------------
\* f32::INFINITY, and a finite distance num / sqrt(lensq) with num >= 0
INFINITY == [inf |-> TRUE, num |-> 0, lensq |-> 1]

Finite(num, lensq) == [inf |-> FALSE, num |-> num, lensq |-> lensq]

\* Exact comparison of products beyond the 32-bit integers of TLC:
\* naturals as little-endian sequences of four-digit limbs
Low(n) == n % 10000

High(n) == n \div 10000

RECURSIVE BigOf(_)
BigOf(n) == IF High(n) = 0 THEN <<n>> ELSE <<Low(n)>> \o BigOf(High(n))

Digit(a, i) == IF i <= Len(a) THEN a[i] ELSE 0

RECURSIVE Column(_, _, _, _)
\* sum of a[i] * b[k + 1 - i] for i = from..k
Column(a, b, k, from) ==
    IF from > k THEN 0
    ELSE Digit(a, from) * Digit(b, k + 1 - from) + Column(a, b, k, from + 1)

RECURSIVE Carry(_, _, _, _, _)
Carry(a, b, k, last, c) ==
    IF k > last THEN (IF c = 0 THEN <<>> ELSE BigOf(c))
    ELSE LET t == Column(a, b, k, 1) + c
         IN  <<Low(t)>> \o Carry(a, b, k + 1, last, High(t))

BigMul(a, b) == Carry(a, b, 1, Len(a) + Len(b) - 1, 0)

RECURSIVE BigLessFrom(_, _, _)
BigLessFrom(a, b, i) ==
    IF i = 0 THEN FALSE
    ELSE IF Digit(a, i) # Digit(b, i) THEN Digit(a, i) < Digit(b, i)
    ELSE BigLessFrom(a, b, i - 1)

BigLess(a, b) ==
    BigLessFrom(a, b, IF Len(a) > Len(b) THEN Len(a) ELSE Len(b))

RECURSIVE FracLess(_, _, _, _)
\* a / b < c / d for naturals a, c and positive b, d, by the continued
\* fractions of the two quotients (no product is formed)
FracLess(a, b, c, d) ==
    LET qa == a \div b
        qc == c \div d
        ra == a % b
        rc == c % d
    IN  IF qa # qc THEN qa < qc
        ELSE IF rc = 0 THEN FALSE
        ELSE IF ra = 0 THEN TRUE
        ELSE FracLess(d, rc, b, ra)

\* n * n is a 32-bit integer of TLC
FitsSquare(n) == n <= 46340

\* x < y for two distances, y possibly infinite: with both numerators
\* non-negative, nx / sqrt(lx) < ny / sqrt(ly) iff nx^2 / lx < ny^2 / ly
\* iff nx^2 * ly < ny^2 * lx
DistLess(x, y) ==
    IF y.inf THEN ~x.inf
    ELSE IF x.inf THEN FALSE
    ELSE IF x.lensq = y.lensq THEN x.num < y.num
    ELSE IF FitsSquare(x.num) /\ FitsSquare(y.num)
    THEN FracLess(x.num * x.num, x.lensq, y.num * y.num, y.lensq)
    ELSE BigLess(BigMul(BigMul(BigOf(x.num), BigOf(x.num)), BigOf(y.lensq)),
                 BigMul(BigMul(BigOf(y.num), BigOf(y.num)), BigOf(x.lensq)))

\* one edge of the polytope, from vertex_i to vertex_j: the normal
\* (ij.y, -ij.x) as a direction and the distance of the edge's line from the
\* origin along it, both flipped when the distance is negative.  A
\* degenerate edge has the normal normalize(0) = NaN and the distance NaN,
\* which no comparison accepts.
EdgeOf(vertex_i, vertex_j) ==
    LET ij == Sub(vertex_j, vertex_i)
        n0 == Dir(<<ij[2], -ij[1]>>)
        d0 == dot(n0, vertex_i)
        flip == d0 < 0
    IN  [nan |-> ij = <<0, 0>>,
         normal |-> IF flip THEN Neg(n0) ELSE n0,
         distance |-> Finite(IF flip THEN -d0 ELSE d0, dot(n0, n0))]

\* the edges of a polytope, edge i leaving vertex i
EdgesOf(polytype) ==
    [i \in 1..Len(polytype) |->
        EdgeOf(polytype[i], polytype[(i % Len(polytype)) + 1])]

\* the edge that `distance < min_distance` keeps of two, i before k in the
\* polytope: the later one only when its distance is strictly smaller
Closer(edges, i, k) ==
    IF i = 0 \/ edges[i].nan THEN (IF edges[k].nan THEN 0 ELSE k)
    ELSE IF edges[k].nan THEN i
    ELSE IF DistLess(edges[k].distance, edges[i].distance) THEN k ELSE i

RECURSIVE EdgeMin(_, _, _)
\* the first edge of least distance among the edges lo..hi, 0 when all of
\* them are degenerate
EdgeMin(edges, lo, hi) ==
    IF lo = hi THEN (IF edges[lo].nan THEN 0 ELSE lo)
    ELSE LET mid == (lo + hi) \div 2
             l == EdgeMin(edges, lo, mid)
             r == EdgeMin(edges, mid + 1, hi)
         IN  IF r = 0 THEN l ELSE IF l = 0 THEN r ELSE Closer(edges, l, r)

\* faulty variant of EdgeScan: `min_normal = normal` is missing
EdgeScanKeepingNormal(edges, m) ==
    LET i == EdgeMin(edges, 1, Len(edges))
    IN  IF i = 0 THEN m
        ELSE [min_index |-> i % Len(edges), min_distance |-> edges[i].distance,
              min_normal |-> m.min_normal]

\* the for loop of epa over the edges: m = (min_index, min_distance,
\* min_normal), min_index the 0-based j of the program.  The loop is entered
\* with min_distance = INFINITY and replaces the minimum only by a strictly
\* smaller distance, so it ends on the first edge of least distance, or
\* leaves m alone when every edge is degenerate.
EdgeScan(edges, m) ==
    LET i == EdgeMin(edges, 1, Len(edges))
    IN  IF i = 0 THEN m
        ELSE [min_index |-> i % Len(edges), min_distance |-> edges[i].distance,
              min_normal |-> edges[i].normal]

\* Vec::insert(index, x), index 0-based
Insert(seq, index, x) ==
    SubSeq(seq, 1, index) \o <<x>> \o SubSeq(seq, index + 1, Len(seq))

\* the edges of Insert(polytype, index, x): the edge that ended at index now
\* ends at x, x has the edge to the old vertex index, the others are as
\* they were
InsertEdges(polytype, edges, index, x) ==
    LET n == Len(polytype)
        start == IF index = 0 THEN n ELSE index
    IN  Insert([edges EXCEPT ![start] = EdgeOf(polytype[start], x)], index,
               EdgeOf(x, polytype[index + 1]))

\* (s_distance - min_distance).abs() > 0.001
NotConverged(m, sup) ==
    IF m.min_distance.inf THEN TRUE
    ELSE LET diff == Abs(dot(m.min_normal, sup) - m.min_distance.num)
             eps == BigOf(EPSILON)
         IN  IF diff = 0 THEN FALSE
             ELSE IF m.min_distance.lensq = 1 THEN diff > EPSILON
             ELSE BigLess(BigMul(BigMul(eps, eps), BigOf(m.min_distance.lensq)),
                          BigMul(BigOf(diff), BigOf(diff)))

Collision(normal, distance, iterations) ==
    [kind |-> "some", normal |-> normal, distance |-> distance,
     iterations |-> iterations]

\* one turn of the while loop of epa on its state st = (polytype, min_index,
\* min_distance, min_normal, iterations), entered with min_distance =
\* INFINITY; a finished state is left alone.  st.edges = EdgesOf(st.polytype):
\* the program computes every edge again in every turn, the model keeps the
\* ones that did not change.
EpaTurn(st, s1, s2) ==
    IF st.kind # "loop" THEN st
    ELSE IF st.iterations > MAX_PHYSICS_ITERATIONS
    THEN [kind |-> "none", iterations |-> st.iterations]
    ELSE LET m1 == EdgeScan(st.edges, st.m)
             sup == support(s1, s2, m1.min_normal)
         IN  IF NotConverged(m1, sup)
             THEN [kind |-> "loop",
                   polytype |-> Insert(st.polytype, m1.min_index, sup),
                   edges |-> InsertEdges(st.polytype, st.edges, m1.min_index, sup),
                   m |-> [m1 EXCEPT !.min_distance = INFINITY],
                   iterations |-> st.iterations + 1]
             ELSE Collision(m1.min_normal, m1.min_distance, st.iterations + 1)

RECURSIVE EpaLoop(_, _, _, _)
\* the while loop of epa: `turns` turns from st, by halves
EpaLoop(st, s1, s2, turns) ==
    IF st.kind # "loop" THEN st
    ELSE IF turns = 1 THEN EpaTurn(st, s1, s2)
    ELSE EpaLoop(EpaLoop(st, s1, s2, turns \div 2), s1, s2,
                 turns - (turns \div 2))

\* the loop leaves at the latest in turn MAX_PHYSICS_ITERATIONS + 2, where
\* iterations > MAX_PHYSICS_ITERATIONS
epa(polytype, s1, s2) ==
    EpaLoop([kind |-> "loop", polytype |-> polytype, edges |-> EdgesOf(polytype),
             m |-> [min_index |-> 0, min_distance |-> INFINITY,
                    min_normal |-> <<0, 0>>],
             iterations |-> 0],
            s1, s2, MAX_PHYSICS_ITERATIONS + 2)

get_collision(s1, s2) ==
    Only({ IF g.kind = "some" THEN epa(g.simplex, s1, s2)
           ELSE [kind |-> g.kind, iterations |-> 0] : g \in {gjk(s1, s2)} })

\* ------------------------------------------------------------------------
\* app.rs: App::fixed_update
\* ------------------------------------------------------------------------
VARIABLES
    quads,               \* App::quads
    old_quads,           \* App::old_quads
    sweeping_colliders,  \* App::sweeping_colliders
    gravity,             \* App::gravity
    pc,                  \* "idle", "loop" inside fixed_update, "hang", or
                         \* "asked" / "answered" for one get_collision call
    ts,                  \* the argument of the running fixed_update
    solved,              \* the AtomicBool of fixed_update
    iterations,          \* the pass counter of fixed_update
    warned,              \* the last fixed_update printed the warning
    answer,              \* what gjk and get_collision returned to the call
    entry,               \* history: quads when the running call was entered
    contacts,            \* history: per body, the contacts of the last pass
    hits,                \* history: the contacts fired in the running call
    firing,              \* history: passes of the running call that fired
    settled,             \* history: quads when the last loop ended
    returned,            \* history: quads when the last call returned
    calls,               \* history: fixed_update calls made
    edits,               \* history: UI edits made
    tasks,               \* the per-body tasks of the running par_extend
    search,              \* the locals of a running gjk: simplex, d; history:
                         \* its turns, the simplex handle_simplex was given
    fixed_update_time,   \* App::fixed_update_time, in ticks
    physics_enabled,     \* App::physics_enabled
    steps,               \* history: fixed steps the frames have run
    elapsed,             \* history: time of the frames met with physics enabled
    query                \* one call of a Collider method: shape, direction, results

vars == <<quads, old_quads, sweeping_colliders, gravity, pc, ts, solved,
          iterations, warned, answer, entry, contacts, hits, firing, settled,
          returned, calls, edits, tasks, search, fixed_update_time,
          physics_enabled, steps, elapsed, query>>

\* the state of the frame loop
frame == <<fixed_update_time, physics_enabled, steps, elapsed>>

\* collision.normal * collision.depth, depth = min_distance + 0.001
NormalTimesDepth(c) ==
    LET l == c.distance.lensq
    IN  DivVec(Scale(c.normal, c.distance.num + EPSILON * ISqrt(l)), l)

\* dot(v, normal) * normal for the unit normal of c
ProjectOnNormal(v, c) ==
    DivVec(Scale(c.normal, dot(v, c.normal)), c.distance.lensq)

\* faulty variant of Approaching: the test of the relative velocity is missing
Colliding(relative_velocity, collision) == TRUE

\* `relative_velocity.dot(-collision.normal) >= 0.0`
Approaching(relative_velocity, collision) ==
    dot(relative_velocity, Neg(collision.normal)) >= 0

\* faulty variant of DynamicCount: the other body is not counted
DynamicAlone(quad, other) == 1

\* `quad.dynamic as usize + other.dynamic as usize`
DynamicCount(quad, other) ==
    (IF quad.dynamic THEN 1 ELSE 0) + (IF other.dynamic THEN 1 ELSE 0)

\* the body of `if other_index != index`: one pairwise test of quad against
\* other, with the deltas accumulated so far in acc
PairTest(quad, other, other_index, acc, sweeping, timestep) ==
    LET sweeping_collider ==
            SweepingCollider(quad, quad.position,
                Add(Add(quad.position, acc.position_delta),
                    Scale(Add(quad.velocity, acc.velocity_delta), timestep)))
        sweeping_collider_other ==
            SweepingCollider(other, other.position,
                Add(other.position, Scale(other.velocity, timestep)))
        collider_a == IF sweeping THEN sweeping_collider ELSE QuadShape(quad)
        collider_b == IF sweeping THEN sweeping_collider_other ELSE QuadShape(other)
        relative_velocity == Sub(other.velocity, quad.velocity)
        dynamic_count == DynamicCount(quad, other)
        Resolved(collision, inner) ==
            IF inner.kind = "hang" THEN [acc EXCEPT !.hang = TRUE]
            ELSE [position_delta |->
                      IF inner.kind = "some"
                      THEN Sub(acc.position_delta,
                               DivVec(NormalTimesDepth(inner), dynamic_count))
                      ELSE acc.position_delta,
                  velocity_delta |->
                      Sub(acc.velocity_delta,
                          ProjectOnNormal(Neg(relative_velocity), collision)),
                  fired |-> acc.fired \cup
                      {[other |-> other_index, normal |-> collision.normal,
                        moved |-> inner.kind = "some"]},
                  hang |-> FALSE]
        Tested(collision) ==
            IF collision.kind = "hang" THEN [acc EXCEPT !.hang = TRUE]
            ELSE IF collision.kind = "some" /\ Approaching(relative_velocity, collision)
            THEN Only({ Resolved(collision, inner) :
                        inner \in {get_collision(QuadShape(quad), QuadShape(other))} })
            ELSE acc
    IN  Only({ Tested(collision) :
               collision \in {get_collision(collider_a, collider_b)} })

RECURSIVE Others(_, _, _, _, _, _)
\* the for loop over old_quads of one body, in index order
Others(old, index, other_index, acc, sweeping, timestep) ==
    IF other_index > Len(old) \/ acc.hang THEN acc
    ELSE Others(old, index, other_index + 1,
                IF other_index # index
                THEN PairTest(old[index], old[other_index], other_index, acc,
                              sweeping, timestep)
                ELSE acc,
                sweeping, timestep)

\* the closure mapped over old_quads: the deltas of body index
BodyPass(old, index, sweeping, timestep) ==
    IF old[index].dynamic
    THEN Others(old, index, 1,
                [position_delta |-> <<0, 0>>, velocity_delta |-> <<0, 0>>,
                 fired |-> {}, hang |-> FALSE],
                sweeping, timestep)
    ELSE [position_delta |-> <<0, 0>>, velocity_delta |-> <<0, 0>>,
          fired |-> {}, hang |-> FALSE]

\* faulty variant of Corrected: the quad is built anew and keeps only what
\* the pass computes
Rebuilt(quad, b) ==
    [quad EXCEPT !.position = Add(quad.position, b.position_delta),
                 !.velocity = Add(quad.velocity, b.velocity_delta),
                 !.scale = <<1000 * EPSILON, 1000 * EPSILON>>,
                 !.color = 1]

\* quad.position += position_delta; quad.velocity += velocity_delta
Corrected(quad, b) ==
    [quad EXCEPT !.position = Add(quad.position, b.position_delta),
                 !.velocity = Add(quad.velocity, b.velocity_delta)]

\* the map over old_quads of one resolution pass
PassResult(old, sweeping, timestep) ==
    [index \in 1..Len(old) |-> BodyPass(old, index, sweeping, timestep)]

\* faulty variant of WithGravity: the filter on quad.dynamic is missing
GravityOnAll(quad, g, timestep) ==
    [quad EXCEPT !.velocity = Add(quad.velocity, Scale(g, timestep))]

\* quad.velocity += gravity * ts, for the dynamic quads
WithGravity(quad, g, timestep) ==
    IF quad.dynamic
    THEN [quad EXCEPT !.velocity = Add(quad.velocity, Scale(g, timestep))]
    ELSE quad

\* faulty variant of Integrated: the rotation is left as it is
Translated(quad, timestep) ==
    IF quad.dynamic
    THEN [quad EXCEPT !.position = Add(quad.position, Scale(quad.velocity, timestep))]
    ELSE quad

\* position += velocity * ts; rotation += angular_velocity * ts, for the
\* dynamic quads
Integrated(quad, timestep) ==
    IF quad.dynamic
    THEN [quad EXCEPT !.position = Add(quad.position, Scale(quad.velocity, timestep)),
                      !.rotation = quad.rotation + quad.angular_velocity * timestep]
    ELSE quad

\* ------------------------------------------------------------------------
\* bounds of the model and the scenes it starts from
\* ------------------------------------------------------------------------
MaxCalls == 2

MaxEdits == 1

MaxQuads == 3

Timesteps == {1, 2}

Gravities == {<<0, 0>>, <<0, -3>>}

\* Quad::default(): scale 1.0 is 1000 tolerances
DefaultQuad == Quad(<<0, 0>>, <<0, 0>>, 0, 0, <<1000 * EPSILON, 1000 * EPSILON>>, 1, TRUE)

Body(px, py, vx, vy, sx, sy, dyn) ==
    Quad(<<px, py>>, <<vx, vy>>, 0, 0, <<sx, sy>>, 0, dyn)

\* App::new restores the scene the last run saved; these are the scenes the
\* model is started from
Scenes ==
    { \* a square sunk into a floor, as App::default, scaled down
      << Body(6, 4, 0, 0, 20, 20, TRUE), Body(6, -10, 0, 0, 100, 10, FALSE) >>,
      \* a square above the floor, falling onto it
      << Body(6, 8, 0, -6, 20, 20, TRUE), Body(6, -10, 0, 0, 100, 10, FALSE) >>,
      \* two dynamic squares overlapping, approaching
      << Body(6, 4, 4, 0, 20, 20, TRUE), Body(22, 4, -2, 0, 20, 20, TRUE) >>,
      \* a fast small square in front of a thin wall
      << Body(6, 4, 60, 0, 10, 10, TRUE), Body(36, 4, 0, 0, 4, 100, FALSE) >>,
      \* a spinning square clear of a static floor that has a velocity
      << Quad(<<6, 64>>, <<2, 0>>, 1, 1, <<20, 10>>, 0, TRUE),
         Quad(<<6, -10>>, <<0, 3>>, 0, 1, <<100, 10>>, 0, FALSE) >>,
      \* a square squeezed between two walls
      << Body(-16, 4, 0, 0, 30, 100, FALSE), Body(6, 4, 0, 0, 20, 20, TRUE),
         Body(28, 4, 0, 0, 30, 100, FALSE) >>,
      \* a square sunk into a floor, a faster square sunk into it from above
      << Body(6, -10, 0, 0, 100, 10, FALSE), Body(7, 4, 0, -2, 20, 20, TRUE),
         Body(5, 23, 0, -8, 20, 20, TRUE) >>,
      \* the fast small square in front of the upper part of the thin wall
      << Body(6, 30, 60, 0, 10, 10, TRUE), Body(36, 4, 0, 0, 4, 100, FALSE) >> }

\* ------------------------------------------------------------------------
\* the state machine
\* ------------------------------------------------------------------------
NoAnswer == [gjk |-> [kind |-> "none"], collision |-> [kind |-> "none", iterations |-> 0]]

NoQuery ==
    [shape |-> QuadShape(DefaultQuad), direction |-> <<0, 0>>, point |-> <<0, 0>>,
     center |-> <<0, 0>>]

InitWith(scene, sweeping, g, at, timestep, asked) ==
    /\ quads = scene
    /\ old_quads = <<>>
    /\ sweeping_colliders = sweeping
    /\ gravity = g
    /\ pc = at
    /\ ts = timestep
    /\ solved = FALSE
    /\ iterations = 0
    /\ warned = FALSE
    /\ answer = NoAnswer
    /\ entry = scene
    /\ contacts = [i \in 1..Len(scene) |-> {}]
    /\ hits = {}
    /\ firing = 0
    /\ settled = scene
    /\ returned = scene
    /\ calls = 0
    /\ edits = 0
    /\ tasks = <<>>
    /\ search = [simplex |-> <<>>, d |-> <<0, 0>>, turns |-> 0, handled |-> <<>>]
    /\ query = asked
    /\ fixed_update_time = 0
    /\ physics_enabled = FALSE
    /\ steps = 0
    /\ elapsed = 0

InitOf(scene, sweeping, g, at, timestep) ==
    InitWith(scene, sweeping, g, at, timestep, NoQuery)

Init ==
    \E scene \in Scenes, sweeping \in BOOLEAN, g \in Gravities :
        InitOf(scene, sweeping, g, "idle", 0)

\* faulty variant of LoopContinues: `!solved` is missing
LoopToTheCap(is_solved, n) == n < MAX_PHYSICS_ITERATIONS

\* the condition of the while loop of fixed_update
LoopContinues(is_solved, n) == ~is_solved /\ n < MAX_PHYSICS_ITERATIONS

\* faulty variant of Warning: `>` for `==`
WarningPastCap(n) == n > MAX_PHYSICS_ITERATIONS

\* the condition of the warning after the loop
Warning(n) == n = MAX_PHYSICS_ITERATIONS

\* fixed_update, to the head of the resolution loop: gravity, solved and
\* iterations
FixedUpdateBegin(timestep) ==
    /\ pc = "idle"
    /\ calls < MaxCalls
    /\ quads' = [i \in 1..Len(quads) |-> WithGravity(quads[i], gravity, timestep)]
    /\ solved' = FALSE
    /\ iterations' = 0
    /\ pc' = "loop"
    /\ ts' = timestep
    /\ warned' = FALSE
    /\ entry' = quads
    /\ contacts' = [i \in 1..Len(quads) |-> {}]
    /\ hits' = {}
    /\ firing' = 0
    /\ calls' = calls + 1
    /\ UNCHANGED <<old_quads, sweeping_colliders, gravity, answer, settled,
                   returned, edits,
                   tasks, search, frame, query>>

\* the contacts of a pass, each with the body that fired it
HitsOf(res) ==
    UNION { { [body |-> i, other |-> c.other, normal |-> c.normal] : c \in res[i].fired }
            : i \in DOMAIN res }

\* one turn of the while loop: swap, clear, par_extend, iterations += 1.  A
\* pairwise test whose gjk never returns leaves the call inside the pass.
ResolutionPass ==
    /\ pc = "loop"
    /\ LoopContinues(solved, iterations)
    /\ \E res \in {PassResult(quads, sweeping_colliders, ts)} :
           IF \E i \in 1..Len(quads) : res[i].hang
           THEN /\ pc' = "hang"
                /\ UNCHANGED <<quads, old_quads, solved, iterations, contacts,
                               hits, firing>>
           ELSE /\ old_quads' = quads
                /\ quads' = [i \in 1..Len(quads) |-> Corrected(quads[i], res[i])]
                /\ solved' = \A i \in 1..Len(quads) : res[i].fired = {}
                /\ contacts' = [i \in 1..Len(quads) |-> res[i].fired]
                /\ hits' = hits \cup HitsOf(res)
                /\ firing' = firing + (IF HitsOf(res) = {} THEN 0 ELSE 1)
                /\ iterations' = iterations + 1
                /\ pc' = pc
    /\ UNCHANGED <<sweeping_colliders, gravity, ts, warned, answer, entry,
                   settled, returned, calls, edits,
                   tasks, search, frame, query>>

\* the rest of fixed_update once the loop has ended: the warning and the
\* final integration
FixedUpdateEnd ==
    /\ pc = "loop"
    /\ ~LoopContinues(solved, iterations)
    /\ warned' = Warning(iterations)
    /\ quads' = [i \in 1..Len(quads) |-> Integrated(quads[i], ts)]
    /\ pc' = "idle"
    /\ settled' = quads
    /\ returned' = quads'
    /\ UNCHANGED <<old_quads, sweeping_colliders, gravity, ts, solved, iterations,
                   answer, entry, contacts, hits, firing, calls, edits,
                   tasks, search, frame, query>>

\* the "Add Quad" button
AddQuad ==
    /\ pc = "idle"
    /\ edits < MaxEdits
    /\ Len(quads) < MaxQuads
    /\ quads' = Append(quads, DefaultQuad)
    /\ edits' = edits + 1
    /\ UNCHANGED <<old_quads, sweeping_colliders, gravity, pc, ts, solved,
                   iterations, warned, answer, entry, contacts, hits, firing,
                   settled, returned, calls,
                   tasks, search, frame, query>>

\* the "Delete" button of quad i (0-based in the program)
DeleteQuad(i) ==
    /\ pc = "idle"
    /\ edits < MaxEdits
    /\ i \in 1..Len(quads)
    /\ quads' = SubSeq(quads, 1, i - 1) \o SubSeq(quads, i + 1, Len(quads))
    /\ edits' = edits + 1
    /\ UNCHANGED <<old_quads, sweeping_colliders, gravity, pc, ts, solved,
                   iterations, warned, answer, entry, contacts, hits, firing,
                   settled, returned, calls,
                   tasks, search, frame, query>>

\* the "Sweeping Colliders" checkbox
ToggleSweeping ==
    /\ pc = "idle"
    /\ edits < MaxEdits
    /\ sweeping_colliders' = ~sweeping_colliders
    /\ edits' = edits + 1
    /\ UNCHANGED <<quads, old_quads, gravity, pc, ts, solved, iterations, warned,
                   answer, entry, contacts, hits, firing, settled, returned,
                   calls,
                   tasks, search, frame, query>>

Next ==
    \/ \E timestep \in Timesteps : FixedUpdateBegin(timestep)
    \/ ResolutionPass
    \/ FixedUpdateEnd
    \/ AddQuad
    \/ \E i \in 1..MaxQuads : DeleteQuad(i)
    \/ ToggleSweeping

Spec == Init /\ [][Next]_vars

\* ------------------------------------------------------------------------
\* fixed_update alone, on scenes that take the resolution loop to its cap
\* ------------------------------------------------------------------------
Slab(x, y, dyn) == Body(x, y, 0, 0, 200, 4000, dyn)

CapScenes ==
    { \* a row of slabs pushed apart from a static one: quiet in pass 100
      << Slab(0, 0, FALSE), Slab(93, 1, TRUE), Slab(177, 2, TRUE),
         Slab(364, 3, TRUE), Slab(510, 4, TRUE), Slab(601, 5, TRUE) >>,
      \* a square squeezed between two walls: never quiet
      << Body(-16, 3, 0, 0, 30, 100, FALSE), Body(6, 4, 0, 0, 20, 20, TRUE),
         Body(28, 5, 0, 0, 30, 100, FALSE) >>,
      \* two squares overlapping: quiet in pass 2
      << Body(6, 4, 4, 0, 20, 20, TRUE), Body(22, 5, -2, 0, 20, 20, TRUE) >> }

InitCap == \E scene \in CapScenes : InitOf(scene, FALSE, <<0, 0>>, "idle", 0)

NextCap ==
    \/ FixedUpdateBegin(1)
    \/ ResolutionPass
    \/ FixedUpdateEnd

SpecCap == InitCap /\ [][NextCap]_vars

\* ------------------------------------------------------------------------
\* a resolution pass as rayon runs it: one task per body, in any interleaving
\* ------------------------------------------------------------------------
NoDelta ==
    [position_delta |-> <<0, 0>>, velocity_delta |-> <<0, 0>>, fired |-> {},
     hang |-> FALSE]

\* faulty variant of Sibling: the body as its task has returned it, when it
\* has
SiblingAsReturned(old, new, j) == IF new[j].done THEN new[j].quad ELSE old[j]

\* the body a task meets at index j: `self.old_quads.iter().enumerate()`
Sibling(old, new, j) == old[j]

ParScenes ==
    { << Body(6, -10, 0, 0, 100, 10, FALSE), Body(7, 4, 0, -2, 20, 20, TRUE),
         Body(5, 23, 0, -8, 20, 20, TRUE) >>,
      << Body(6, 4, 4, 0, 20, 20, TRUE), Body(22, 4, -2, 0, 20, 20, TRUE) >>,
      << Body(0, 0, 3, 0, 20, 20, TRUE), Body(18, 1, 0, 0, 20, 20, TRUE),
         Body(36, 2, -3, 0, 20, 20, TRUE) >> }

InitPar ==
    \E scene \in ParScenes, sweeping \in BOOLEAN :
        InitOf(scene, sweeping, <<0, 0>>, "idle", 0)

\* the head of one turn of the while loop: solved.store(true), swap, clear,
\* and the tasks of par_extend are there to run
PassFork ==
    /\ pc = "loop"
    /\ LoopContinues(solved, iterations)
    /\ solved' = TRUE
    /\ old_quads' = quads
    /\ quads' = <<>>
    /\ tasks' = [i \in 1..Len(quads) |->
                    [other_index |-> 1, acc |-> NoDelta, before |-> NoDelta,
                     done |-> FALSE, quad |-> quads[i]]]
    /\ pc' = "pass"
    /\ UNCHANGED <<sweeping_colliders, gravity, ts, iterations, warned, answer,
                   entry, contacts, hits, firing, settled, returned, calls, edits,
                   search, frame, query>>

\* one turn of the for loop of the task of body index: the pairwise test
\* with the next body, and solved.store(false) when it fires
TaskTest(index) ==
    /\ pc = "pass"
    /\ index \in 1..Len(tasks)
    /\ ~tasks[index].done
    /\ old_quads[index].dynamic
    /\ tasks[index].other_index <= Len(old_quads)
    /\ \E other_index \in {tasks[index].other_index} :
       \E acc \in {IF other_index # index
                   THEN PairTest(old_quads[index],
                                 Sibling(old_quads, tasks, other_index),
                                 other_index, tasks[index].acc,
                                 sweeping_colliders, ts)
                   ELSE tasks[index].acc} :
           /\ tasks' = [tasks EXCEPT ![index].other_index = other_index + 1,
                                     ![index].acc = acc,
                                     ![index].before = tasks[index].acc]
           /\ solved' = (solved /\ acc.fired = tasks[index].acc.fired)
           /\ pc' = IF acc.hang THEN "hang" ELSE pc
    /\ UNCHANGED <<quads, old_quads, sweeping_colliders, gravity, ts, iterations,
                   warned, answer, entry, contacts, hits, firing, settled,
                   returned, calls, edits, search, frame, query>>

\* the task of body index returns its quad: the deltas are applied to a
\* dynamic one
TaskReturn(index) ==
    /\ pc = "pass"
    /\ index \in 1..Len(tasks)
    /\ ~tasks[index].done
    /\ ~old_quads[index].dynamic \/ tasks[index].other_index > Len(old_quads)
    /\ tasks' = [tasks EXCEPT ![index].done = TRUE,
                              ![index].quad =
                                  IF old_quads[index].dynamic
                                  THEN Corrected(old_quads[index], tasks[index].acc)
                                  ELSE old_quads[index]]
    /\ UNCHANGED <<quads, old_quads, sweeping_colliders, gravity, pc, ts, solved,
                   iterations, warned, answer, entry, contacts, hits, firing,
                   settled, returned, calls, edits, search, frame, query>>

\* par_extend has collected the quads of all tasks, in index order;
\* iterations += 1
PassJoin ==
    /\ pc = "pass"
    /\ \A i \in 1..Len(tasks) : tasks[i].done
    /\ quads' = [i \in 1..Len(tasks) |-> tasks[i].quad]
    /\ contacts' = [i \in 1..Len(tasks) |-> tasks[i].acc.fired]
    /\ \E res \in {[i \in 1..Len(tasks) |-> tasks[i].acc]} :
           /\ hits' = hits \cup HitsOf(res)
           /\ firing' = firing + (IF HitsOf(res) = {} THEN 0 ELSE 1)
    /\ iterations' = iterations + 1
    /\ tasks' = <<>>
    /\ pc' = "loop"
    /\ UNCHANGED <<old_quads, sweeping_colliders, gravity, ts, solved, warned,
                   answer, entry, settled, returned, calls, edits, search, frame, query>>

\* three bodies each: a floor and two bodies in contact; two bodies that
\* overlap and move apart, and one coming down on them; a fast body on its
\* way to a resting one, over a floor
TestScenes ==
    { << Body(6, -10, 0, 0, 100, 10, FALSE), Body(7, 4, 0, -2, 20, 20, TRUE),
         Body(5, 23, 0, -8, 20, 20, TRUE) >>,
      << Body(0, 0, -3, 0, 20, 20, TRUE), Body(18, 1, 3, 0, 20, 20, TRUE),
         Body(0, 19, 0, -4, 20, 20, TRUE) >>,
      << Body(0, 0, 30, 0, 20, 20, TRUE), Body(40, 0, 0, 0, 20, 20, TRUE),
         Body(20, -16, 0, 0, 100, 10, FALSE) >> }

InitTest ==
    \E scene \in TestScenes, sweeping \in BOOLEAN :
        InitOf(scene, sweeping, <<0, 0>>, "idle", 0)

NextPar ==
    \/ FixedUpdateBegin(1)
    \/ PassFork
    \/ \E index \in 1..MaxQuads : TaskTest(index)
    \/ \E index \in 1..MaxQuads : TaskReturn(index)
    \/ PassJoin
    \/ FixedUpdateEnd

SpecPar == InitPar /\ [][NextPar]_vars

SpecTest == InitTest /\ [][NextPar]_vars

\* ------------------------------------------------------------------------
\* one call of get_collision, on the two shapes fixed_update would pass for
\* the pair quads[1], quads[2] before any delta is accumulated
\* ------------------------------------------------------------------------
Reach == 2

Offsets == { k : k \in -Reach..Reach }

\* a 20 x 10 rectangle at the origin and a 4 x 6 rectangle around it, each
\* upright or turned by a quarter, at rest or moving
Pairs ==
    { << Quad(<<0, 0>>, Scale(<<9, 4>>, m), r1, 0, <<20, 10>>, 0, TRUE),
         Quad(<<6 * x, 4 * y>>, Scale(<<-7, 3>>, m), r2, 0, <<4, 6>>, 0, TRUE) >> :
      x \in Offsets, y \in Offsets, r1 \in {0, 1}, r2 \in {0, 1}, m \in {0, 1} }

ShapeOf(quad, sweeping, timestep) ==
    IF sweeping
    THEN SweepingCollider(quad, quad.position,
                          Add(quad.position, Scale(quad.velocity, timestep)))
    ELSE QuadShape(quad)

InitCollision ==
    \E scene \in Pairs, sweeping \in BOOLEAN :
        InitOf(scene, sweeping, <<0, 0>>, "asked", 1)

GetCollision ==
    /\ pc = "asked"
    /\ answer' =
          LET s1 == ShapeOf(quads[1], sweeping_colliders, ts)
              s2 == ShapeOf(quads[2], sweeping_colliders, ts)
          IN  [gjk |-> gjk(s1, s2), collision |-> get_collision(s1, s2)]
    /\ pc' = "answered"
    /\ UNCHANGED <<quads, old_quads, sweeping_colliders, gravity, ts, solved,
                   iterations, warned, entry, contacts, hits, firing, settled,
                   returned, calls, edits,
                   tasks, search, frame, query>>

SpecCollision == InitCollision /\ [][GetCollision]_vars

\* ------------------------------------------------------------------------
\* <App as eframe::App>::update: the frames and their fixed steps
\* ------------------------------------------------------------------------
\* Duration::from_secs_f64(1.0 / 100.0), in ticks of 5 ms
fixed_update_interval == 2

\* std::f32::consts::TAU, in quarter turns
TAU == 4

\* the time between two frames, in ticks
FrameTimes == {1, 2, 3, 5}

\* the frames of a run pass no more time than this with physics enabled
MaxElapsed == 8

MaxToggles == 3

\* `%` of f32: the remainder has the sign of the dividend
Rem(a, b) == a - b * Quot(a, b)

\* rotation %= TAU; rotation += TAU; rotation %= TAU
Wrapped(quad) ==
    [quad EXCEPT !.rotation = Rem(Rem(quad.rotation, TAU) + TAU, TAU)]

RECURSIVE ResolutionLoop(_, _, _, _, _)
\* the while loop of fixed_update, all its passes
ResolutionLoop(qs, is_solved, n, sweeping, timestep) ==
    IF LoopContinues(is_solved, n)
    THEN Only({ ResolutionLoop([i \in 1..Len(qs) |-> Corrected(qs[i], res[i])],
                               \A i \in 1..Len(qs) : res[i].fired = {},
                               n + 1, sweeping, timestep)
                : res \in {PassResult(qs, sweeping, timestep)} })
    ELSE qs

\* one call of fixed_update, from gravity to the integration
fixed_update(qs, sweeping, g, timestep) ==
    Only({ [i \in 1..Len(qs) |-> Integrated(res[i], timestep)]
           : res \in {ResolutionLoop(
                         [i \in 1..Len(qs) |-> WithGravity(qs[i], g, timestep)],
                         FALSE, 0, sweeping, timestep)} })

\* faulty variant of Accumulated: `if self.physics_enabled` is missing
AccumulatedAlways(time, enabled, dt) == time + dt

\* `if self.physics_enabled { self.fixed_update_time += dt; .. }`
Accumulated(time, enabled, dt) == IF enabled THEN time + dt ELSE time

\* the condition of the while loop of the frame
Behind(time) == time > fixed_update_interval

FrameScenes ==
    { << Quad(<<6, 64>>, <<2, 0>>, 1, 1, <<20, 10>>, 0, TRUE),
         Quad(<<6, -10>>, <<0, 3>>, 0, 1, <<100, 10>>, 0, FALSE) >>,
      << Quad(<<0, 0>>, <<0, 0>>, 0, -1, <<20, 20>>, 0, TRUE) >> }

InitFrame ==
    \E scene \in FrameScenes, sweeping \in BOOLEAN, g \in Gravities :
        InitOf(scene, sweeping, g, "idle", 0)

\* update, to the head of its while loop: dt is the time since the frame
\* before
FrameBegin(dt) ==
    /\ pc = "idle"
    /\ physics_enabled => elapsed + dt <= MaxElapsed
    /\ fixed_update_time' = Accumulated(fixed_update_time, physics_enabled, dt)
    /\ elapsed' = elapsed + (IF physics_enabled THEN dt ELSE 0)
    /\ pc' = "frame"
    /\ UNCHANGED <<quads, old_quads, sweeping_colliders, gravity, ts, solved,
                   iterations, warned, answer, entry, contacts, hits, firing,
                   settled, returned, calls, edits, tasks, search,
                   physics_enabled, steps, query>>

\* one turn of the while loop of update: one fixed step
FrameStep ==
    /\ pc = "frame"
    /\ physics_enabled
    /\ Behind(fixed_update_time)
    /\ quads' = fixed_update(quads, sweeping_colliders, gravity, fixed_update_interval)
    /\ fixed_update_time' = fixed_update_time - fixed_update_interval
    /\ steps' = steps + 1
    /\ UNCHANGED <<old_quads, sweeping_colliders, gravity, pc, ts, solved,
                   iterations, warned, answer, entry, contacts, hits, firing,
                   settled, returned, calls, edits, tasks, search,
                   physics_enabled, elapsed, query>>

\* the rest of update: the rotations are wrapped; the "Physics Enabled"
\* checkbox or the space key may toggle physics
FrameEnd(toggle) ==
    /\ pc = "frame"
    /\ ~(physics_enabled /\ Behind(fixed_update_time))
    /\ toggle => edits < MaxToggles
    /\ quads' = [i \in 1..Len(quads) |-> Wrapped(quads[i])]
    /\ physics_enabled' = (physics_enabled # toggle)
    /\ edits' = edits + (IF toggle THEN 1 ELSE 0)
    /\ pc' = "idle"
    /\ UNCHANGED <<old_quads, sweeping_colliders, gravity, ts, solved, iterations,
                   warned, answer, entry, contacts, hits, firing, settled,
                   returned, calls, tasks, search, fixed_update_time, steps,
                   elapsed, query>>

NextFrame ==
    \/ \E dt \in FrameTimes : FrameBegin(dt)
    \/ FrameStep
    \/ \E toggle \in BOOLEAN : FrameEnd(toggle)

SpecFrame == InitFrame /\ [][NextFrame]_vars

\* ------------------------------------------------------------------------
\* one call of get_collision, the loop of gjk turn by turn
\* ------------------------------------------------------------------------
\* gjk up to its loop: the start direction, the first support point
GjkStart ==
    /\ pc = "asked"
    /\ \E s1 \in {ShapeOf(quads[1], sweeping_colliders, ts)},
          s2 \in {ShapeOf(quads[2], sweeping_colliders, ts)} :
       \E first \in {support(s1, s2, Dir(Sub(center2(s2), center2(s1))))} :
           search' = [simplex |-> <<first>>, d |-> Neg(first), turns |-> 0,
                      handled |-> <<>>]
    /\ pc' = "gjk"
    /\ UNCHANGED <<quads, old_quads, sweeping_colliders, gravity, ts, solved,
                   iterations, warned, answer, entry, contacts, hits, firing,
                   settled, returned, calls, edits, tasks, frame, query>>

\* one turn of the loop of gjk; search.handled is the simplex that
\* handle_simplex was given
GjkTurn ==
    /\ pc = "gjk"
    /\ \E s1 \in {ShapeOf(quads[1], sweeping_colliders, ts)},
          s2 \in {ShapeOf(quads[2], sweeping_colliders, ts)} :
       \E a \in {support(s1, s2, search.d)} :
           IF dot(a, search.d) < 0
           THEN /\ answer' = NoAnswer
                /\ pc' = "answered"
                /\ search' = search
           ELSE \E h \in {handle_simplex(Append(search.simplex, a), search.d)} :
                    /\ search' = [simplex |-> h.simplex, d |-> h.d,
                                  turns |-> search.turns + 1,
                                  handled |-> Append(search.simplex, a)]
                    /\ answer' = IF h.done
                                 THEN [answer EXCEPT !.gjk =
                                          [kind |-> "some", simplex |-> h.simplex]]
                                 ELSE answer
                    /\ pc' = IF h.done THEN "epa" ELSE pc
    /\ UNCHANGED <<quads, old_quads, sweeping_colliders, gravity, ts, solved,
                   iterations, warned, entry, contacts, hits, firing, settled,
                   returned, calls, edits, tasks, frame, query>>

\* `.and_then(|simplex| epa(simplex.into(), s1, s2))`
EpaRun ==
    /\ pc = "epa"
    /\ answer' = [answer EXCEPT !.collision =
                     epa(answer.gjk.simplex,
                         ShapeOf(quads[1], sweeping_colliders, ts),
                         ShapeOf(quads[2], sweeping_colliders, ts))]
    /\ pc' = "answered"
    /\ UNCHANGED <<quads, old_quads, sweeping_colliders, gravity, ts, solved,
                   iterations, warned, entry, contacts, hits, firing, settled,
                   returned, calls, edits, tasks, search, frame, query>>

NextGjk ==
    \/ GjkStart
    \/ GjkTurn
    \/ EpaRun

SpecGjk == InitCollision /\ [][NextGjk]_vars

\* ------------------------------------------------------------------------
\* one call of the two Collider methods on one shape
\* ------------------------------------------------------------------------
Directions ==
    { <<0, 0>>, <<1, 0>>, <<0, 1>>, <<-1, 0>>, <<0, -1>>, <<1, 1>>, <<-2, 1>>,
      <<1, -3>> }

Places == { <<0, 0>>, <<6, -4>>, <<-8, 2>> }

Rectangles ==
    { Quad(p, <<0, 0>>, r, 0, s, 0, TRUE) :
        p \in { <<0, 0>>, <<6, -4>> }, r \in 0..3, s \in { <<20, 10>>, <<4, 6>> } }

Shapes ==
    { QuadShape(q) : q \in Rectangles }
        \cup { SweepingCollider(q, a, b) : q \in Rectangles, a \in Places, b \in Places }

InitSupport ==
    \E s \in Shapes, direction \in Directions :
        InitWith(<<DefaultQuad>>, FALSE, <<0, 0>>, "asked", 1,
                 [NoQuery EXCEPT !.shape = s, !.direction = direction])

\* Collider::center and Collider::furthest_point_in_direction
ColliderCall ==
    /\ pc = "asked"
    /\ query' = [query EXCEPT
                    !.point = furthest_point_in_direction(query.shape, query.direction),
                    !.center = center2(query.shape)]
    /\ pc' = "answered"
    /\ UNCHANGED <<quads, old_quads, sweeping_colliders, gravity, ts, solved,
                   iterations, warned, answer, entry, contacts, hits, firing,
                   settled, returned, calls, edits, tasks, search, frame>>

SpecSupport == InitSupport /\ [][ColliderCall]_vars

\* ------------------------------------------------------------------------
\* properties of get_collision
\* ------------------------------------------------------------------------
Min(m, n) == IF m < n THEN m ELSE n

Max(m, n) == IF m > n THEN m ELSE n

\* the extent of a rectangle turned by quarter turns along axis k
Lowest(q, k) ==
    LET p == QuadPoints(q) IN Min(Min(p[1][k], p[2][k]), Min(p[3][k], p[4][k]))

Highest(q, k) ==
    LET p == QuadPoints(q) IN Max(Max(p[1][k], p[2][k]), Max(p[3][k], p[4][k]))

\* the gap between two such rectangles: positive when an axis separates
\* them, 0 when they only touch (along an edge or at a corner), negative
\* when they overlap
GapAlong(a, b, k) == Max(Lowest(b, k) - Highest(a, k), Lowest(a, k) - Highest(b, k))

Gap(a, b) == Max(GapAlong(a, b, 1), GapAlong(a, b, 2))

Cross(a, b) == a[1] * b[2] - a[2] * b[1]

Collinear(simplex) ==
    Cross(Sub(simplex[2], simplex[1]), Sub(simplex[3], simplex[1])) = 0

\* the origin is on the segment from p to q
OriginOnSegment(p, q) == Cross(p, q) = 0 /\ dot(p, q) <= 0

\* the origin is inside or on the triangle of the three points, a segment
\* or a point when they are collinear or coincide
OriginEnclosed(simplex) ==
    LET a == simplex[1]
        b == simplex[2]
        c == simplex[3]
        ab == Cross(a, b)
        bc == Cross(b, c)
        ca == Cross(c, a)
    IN  IF Collinear(simplex)
        THEN OriginOnSegment(a, b) \/ OriginOnSegment(b, c) \/ OriginOnSegment(c, a)
        ELSE (ab >= 0 /\ bc >= 0 /\ ca >= 0) \/ (ab <= 0 /\ bc <= 0 /\ ca <= 0)

\* C3, as the program has it: for two rectangles that an axis separates by
\* a positive gap, get_collision returns None.
C3_SeparatedIsNone ==
    (pc = "answered" /\ ~sweeping_colliders /\ Gap(quads[1], quads[2]) > 0)
        => answer.collision.kind = "none"

\* get_collision has answered None for two rectangles a positive gap apart
C3_Witness ==
    /\ pc = "answered" /\ ~sweeping_colliders
    /\ Gap(quads[1], quads[2]) > 0
    /\ quads[1].rotation # quads[2].rotation
    /\ answer.collision.kind = "none"

\* C3, as it is claimed: for two rectangles that do not overlap, those that
\* only touch along an edge or at a corner included, get_collision returns
\* None.
C3_NonOverlappingIsNone ==
    (pc = "answered" /\ ~sweeping_colliders /\ Gap(quads[1], quads[2]) >= 0)
        => answer.collision.kind = "none"

\* C4: every Collision that get_collision returns has a depth of at least
\* the bias (min_distance finite and >= 0) and a normal that is the
\* normalised normal of an edge: not the zero vector, and of length 1 once
\* divided by the square root of the squared length kept with the distance.
C4_DepthAndNormal ==
    (pc = "answered" /\ answer.collision.kind = "some") =>
        /\ answer.collision.normal # <<0, 0>>
        /\ ~answer.collision.distance.inf
        /\ answer.collision.distance.num >= 0
        /\ answer.collision.distance.lensq =
               dot(answer.collision.normal, answer.collision.normal)

\* epa has returned a Collision from a polytope of collinear points
C4_Witness ==
    /\ pc = "answered" /\ answer.collision.kind = "some"
    /\ Collinear(answer.gjk.simplex)
    /\ answer.collision.iterations > 1

\* C5: epa runs only on the simplex of a gjk that returned Some, that
\* simplex has 3 points, and the origin is inside or on their triangle
\* (on their segment when they are collinear).
C5_SimplexEnclosesOrigin ==
    pc = "answered" =>
        /\ answer.collision.iterations > 0 => answer.gjk.kind = "some"
        /\ answer.gjk.kind = "some" =>
               /\ Len(answer.gjk.simplex) = 3
               /\ OriginEnclosed(answer.gjk.simplex)

\* gjk has returned a simplex of collinear points for two swept rectangles
C5_Witness ==
    /\ pc = "answered" /\ sweeping_colliders
    /\ answer.gjk.kind = "some"
    /\ Collinear(answer.gjk.simplex)
    /\ answer.collision.iterations > 0

\* ------------------------------------------------------------------------
\* properties of fixed_update
\* ------------------------------------------------------------------------
\* the bodies as the last observation of the running or last call has them
Seen == IF pc = "idle" THEN returned ELSE quads

\* C1: a body with dynamic = false has, at every point of fixed_update and
\* when it returns, the position, velocity and rotation it had when the call
\* was entered, whatever contacts fired against it.
C1_StaticBodiesUnchanged ==
    calls > 0 =>
        /\ Len(Seen) = Len(entry)
        /\ \A i \in 1..Len(entry) :
               ~entry[i].dynamic =>
                   /\ Seen[i].position = entry[i].position
                   /\ Seen[i].velocity = entry[i].velocity
                   /\ Seen[i].rotation = entry[i].rotation

\* a call under gravity has returned in which a contact fired against a
\* static body
C1_Witness ==
    /\ pc = "idle" /\ calls > 0
    /\ gravity # <<0, 0>>
    /\ \E h \in hits : ~entry[h.other].dynamic /\ entry[h.body].dynamic

\* C2: fixed_update never adds, removes or reorders bodies: at every point
\* of a call and when it returns, also a call made after a UI edit, quads
\* has the length it had on entry and every body has the scale, color,
\* dynamic flag and angular velocity it had on entry.
C2_BodiesKept ==
    calls > 0 =>
        /\ Len(Seen) = Len(entry)
        /\ \A i \in 1..Len(entry) :
               /\ Seen[i].scale = entry[i].scale
               /\ Seen[i].color = entry[i].color
               /\ Seen[i].dynamic = entry[i].dynamic
               /\ Seen[i].angular_velocity = entry[i].angular_velocity

\* a second call, entered after "Add Quad", has returned after several
\* passes that moved a body
C2_Witness ==
    /\ pc = "idle" /\ calls >= 2 /\ iterations >= 2
    /\ \E i \in 1..Len(entry) : entry[i] = DefaultQuad
    /\ \E i \in 1..Len(entry) : returned[i].position # entry[i].position

\* C6: when the resolution loop of a call has ended, no dynamic body
\* approaches, along the normal of a contact that fired for it in the call,
\* the body the contact was with: (other.velocity - body.velocity) projected
\* on -normal is <= 0.
C6_NoApproachAfterLoop ==
    (pc = "idle" /\ calls > 0) =>
        \A h \in hits :
            dot(Sub(settled[h.other].velocity, settled[h.body].velocity),
                Neg(h.normal)) <= 0

\* no two bodies overlap or touch: an axis separates every pair by a
\* positive gap (the bodies are turned by quarter turns)
AllApart(qs) ==
    \A i \in 1..Len(qs), j \in 1..Len(qs) :
        i < j => Gap(qs[i], qs[j]) > 0

\* C7: a resolution pass on bodies of which every pair is apart changes no
\* position, in both modes; in direct mode it changes no body at all and
\* leaves solved = true.  (old_quads holds the bodies the last pass read.)
C7_PassOnSeparatedBodies ==
    (pc = "loop" /\ iterations >= 1 /\ AllApart(old_quads)) =>
        /\ \A i \in 1..Len(old_quads) : quads[i].position = old_quads[i].position
        /\ ~sweeping_colliders => (quads = old_quads /\ solved)

\* after a pass that fired, a pass in sweeping mode has read bodies that
\* were apart, and changed a velocity
C7_Witness ==
    /\ pc = "loop" /\ iterations >= 2 /\ firing >= 2
    /\ sweeping_colliders
    /\ AllApart(old_quads)
    /\ quads # old_quads

\* body b, carried along its velocity for the step, crosses wall w along
\* axis k: it starts on one side of it and its straight-line motion ends on
\* the other, facing the wall at both ends, and the wall is thinner than
\* the body, which moves by more than its own width
MovedBy(b, timestep) ==
    [b EXCEPT !.position = Add(b.position, Scale(b.velocity, timestep))]

Before(a, w, k) == Highest(a, k) < Lowest(w, k)

After(a, w, k) == Lowest(a, k) > Highest(w, k)

Crosses(b, w, timestep, k) ==
    LET e == MovedBy(b, timestep)
        width == Highest(b, k) - Lowest(b, k)
    IN  /\ \/ Before(b, w, k) /\ After(e, w, k)
           \/ After(b, w, k) /\ Before(e, w, k)
        /\ GapAlong(b, w, 3 - k) < 0
        /\ GapAlong(e, w, 3 - k) < 0
        /\ Highest(w, k) - Lowest(w, k) < width
        /\ Abs(b.velocity[k]) * timestep > width

\* a is on the side of w that b is not
FarSide(a, b, w, k) ==
    \/ Before(b, w, k) /\ After(a, w, k)
    \/ After(b, w, k) /\ Before(a, w, k)

\* C8: in sweeping mode, when fixed_update returns, every dynamic body that
\* was to cross a thin static wall in the step has fired a contact with the
\* wall and is not on the far side of it.
C8_SweepingCatchesTheBody ==
    (pc = "loop" /\ ~LoopContinues(solved, iterations) /\ sweeping_colliders) =>
        \A i \in 1..Len(entry), j \in 1..Len(entry), k \in {1, 2} :
            LET b == WithGravity(entry[i], gravity, ts)
            IN  (b.dynamic /\ ~entry[j].dynamic /\ Crosses(b, entry[j], ts, k)) =>
                    /\ \E h \in hits : h.body = i /\ h.other = j
                    /\ ~FarSide(Integrated(quads[i], ts), b, entry[j], k)

\* C9: the resolution loop of a call runs at least one pass and at most
\* MAX_PHYSICS_ITERATIONS, and no pass after one in which nothing fired:
\* while the call runs every pass so far has fired, or every pass but the
\* last, which then is the last of the call; when the call has returned it
\* has made min(MAX_PHYSICS_ITERATIONS, first pass that did not fire) passes.
C9_PassCount ==
    (calls > 0 /\ pc \in {"loop", "idle"}) =>
        /\ iterations <= MAX_PHYSICS_ITERATIONS
        /\ \/ firing = iterations /\ ~solved
           \/ /\ firing = iterations - 1
              /\ solved
              /\ \A i \in 1..Len(contacts) : contacts[i] = {}
        /\ pc = "idle" =>
               /\ iterations >= 1
               /\ solved \/ iterations = MAX_PHYSICS_ITERATIONS

\* a call has returned after several passes, the last of which fired
\* nothing, short of the cap
C9_Witness ==
    /\ pc = "idle" /\ calls > 0
    /\ solved
    /\ iterations > 2 /\ iterations < MAX_PHYSICS_ITERATIONS

\* C10, as the program has it: fixed_update prints the warning exactly
\* when the loop has made MAX_PHYSICS_ITERATIONS passes, whether the last of
\* them fired or not; either way the call returns with every dynamic body
\* moved by its velocity and turned by its angular velocity.
C10_WarningAtTheCap ==
    (pc = "idle" /\ calls > 0) =>
        /\ warned <=> iterations = MAX_PHYSICS_ITERATIONS
        /\ Len(returned) = Len(settled)
        /\ \A i \in 1..Len(settled) :
               settled[i].dynamic =>
                   /\ returned[i].position =
                          Add(settled[i].position, Scale(settled[i].velocity, ts))
                   /\ returned[i].rotation =
                          settled[i].rotation + settled[i].angular_velocity * ts

\* a call whose loop was quiet in pass MAX_PHYSICS_ITERATIONS has returned,
\* with the warning printed
C10_Witness ==
    /\ pc = "idle" /\ calls > 0
    /\ iterations = MAX_PHYSICS_ITERATIONS
    /\ solved
    /\ warned

\* C10, as it is claimed: fixed_update prints the warning exactly when the
\* loop ended without convergence, the last pass still firing; a loop that
\* converged, in pass MAX_PHYSICS_ITERATIONS too, prints none.
C10_WarningWithoutConvergence ==
    (pc = "idle" /\ calls > 0) => (warned <=> ~solved)

\* ------------------------------------------------------------------------
\* properties of epa and gjk
\* ------------------------------------------------------------------------
\* C11: one call of epa makes at most MAX_PHYSICS_ITERATIONS turns of its
\* loop, each of which but a converging one expands the polytope; it
\* returns None exactly when that many turns did not converge.
\* (answer.collision.iterations is the `iterations` epa returned with.)
C11_EpaWithinTheCap ==
    (pc = "answered" /\ answer.gjk.kind = "some") =>
        /\ answer.collision.iterations <= MAX_PHYSICS_ITERATIONS
        /\ answer.collision.kind = "none" <=>
               answer.collision.iterations = MAX_PHYSICS_ITERATIONS

\* ------------------------------------------------------------------------
\* properties of the parallel pass
\* ------------------------------------------------------------------------
\* C12: whatever the interleaving of the tasks of a pass, every task that
\* has returned has returned the quad the sequential map over the snapshot
\* old_quads gives for its body; while the tasks run, solved is false
\* exactly when a pairwise test has fired so far; and the pass leaves quads
\* as that map, with solved false exactly when a test of the pass fired.
C12_PassIsTheSequentialMap ==
    /\ pc = "pass" =>
         /\ \A i \in 1..Len(tasks) :
                tasks[i].done =>
                    tasks[i].quad =
                        Corrected(old_quads[i],
                                  BodyPass(old_quads, i, sweeping_colliders, ts))
         /\ solved <=> \A i \in 1..Len(tasks) : tasks[i].acc.fired = {}
    /\ (pc = "loop" /\ iterations >= 1) =>
         /\ quads = [i \in 1..Len(old_quads) |->
                        Corrected(old_quads[i],
                                  BodyPass(old_quads, i, sweeping_colliders, ts))]
         /\ solved <=> \A i \in 1..Len(contacts) : contacts[i] = {}

\* two tasks are under way at once, one of them after a test that fired,
\* and the task of a third body has returned a quad it moved
C12_Witness ==
    /\ pc = "pass"
    /\ ~solved
    /\ \E i, j, k \in 1..Len(tasks) :
           /\ i # j
           /\ ~tasks[i].done /\ tasks[i].other_index > 1
           /\ ~tasks[j].done /\ tasks[j].other_index > 1
           /\ tasks[k].done /\ tasks[k].quad # old_quads[k]

\* C13: get_collision returns, Some or None, for every pair: the loop of
\* gjk, which is deterministic, never comes back to a simplex and direction
\* it has had, also when the centers coincide (start direction
\* normalize(0)) and when the origin is on the line of the first two points
\* (search direction 0).
C13_GetCollisionReturns ==
    pc = "answered" =>
        /\ answer.gjk.kind \in {"some", "none"}
        /\ answer.collision.kind \in {"some", "none"}

\* get_collision has returned a Collision for two rectangles of the same
\* center
C13_Witness ==
    /\ pc = "answered"
    /\ ~sweeping_colliders
    /\ quads[1].position = quads[2].position
    /\ answer.collision.kind = "some"

\* C19: every simplex handle_simplex is given has 2 or 3 points: the
\* simplex has 1 point before the first turn and 2 before every other; the
\* line case keeps its 2 points, the triangle case keeps its newest point
\* and one of the two others, or succeeds with all 3, and gjk returns Some
\* of 3 points.
C19_SimplexSizes ==
    /\ pc = "gjk" =>
         /\ Len(search.simplex) = (IF search.turns = 0 THEN 1 ELSE 2)
         /\ search.turns > 0 =>
                /\ Len(search.handled) \in {2, 3}
                /\ Len(search.handled) = 2 => search.simplex = search.handled
                /\ Len(search.handled) = 3 =>
                       \/ search.simplex = <<search.handled[2], search.handled[3]>>
                       \/ search.simplex = <<search.handled[1], search.handled[3]>>
    /\ (pc \in {"epa", "answered"} /\ answer.gjk.kind = "some") =>
             /\ Len(answer.gjk.simplex) = 3
             /\ search.handled = answer.gjk.simplex

\* the loop of gjk is in a turn after a triangle case that removed point 1
C19_Witness ==
    /\ pc = "gjk"
    /\ search.turns > 2
    /\ Len(search.handled) = 3
    /\ search.simplex = <<search.handled[1], search.handled[3]>>
    /\ search.handled[1] # search.handled[2]

\* the corners of an unrotated rectangle of positive scale by their places
Corner(q, left, bottom) ==
    << q.position[1] + (IF left THEN -1 ELSE 1) * (q.scale[1] \div 2),
       q.position[2] + (IF bottom THEN -1 ELSE 1) * (q.scale[2] \div 2) >>

\* C17: Quad::furthest_point_in_direction returns a corner of the largest
\* dot product with the direction, and of the corners of the largest dot
\* product the first in the order of the points array, which for an
\* unrotated quad is bottom-left, top-left, bottom-right, top-right; for
\* direction 0 that is the first corner.
C17_FirstFurthestCorner ==
    (pc = "answered" /\ query.shape.kind = "quad") =>
        LET q == query.shape.collider
            points == QuadPoints(q)
        IN  /\ \E i \in 1..4 :
                   /\ query.point = points[i]
                   /\ \A j \in 1..4 :
                          dot(points[j], query.direction) <= dot(points[i], query.direction)
                   /\ \A j \in 1..(i - 1) :
                          dot(points[j], query.direction) < dot(points[i], query.direction)
            /\ query.direction = <<0, 0>> => query.point = points[1]
            /\ q.rotation = 0 =>
                   points = << Corner(q, TRUE, TRUE), Corner(q, TRUE, FALSE),
                               Corner(q, FALSE, TRUE), Corner(q, FALSE, FALSE) >>

\* a rotated quad has answered with its second corner, which the fourth
\* ties
C17_Witness ==
    /\ pc = "answered"
    /\ query.shape.kind = "quad"
    /\ query.shape.collider.rotation = 1
    /\ query.direction # <<0, 0>>
    /\ query.point = QuadPoints(query.shape.collider)[2]
    /\ dot(QuadPoints(query.shape.collider)[4], query.direction)
           = dot(query.point, query.direction)

\* C18: SweepingCollider::furthest_point_in_direction returns the support
\* point of the wrapped shape, taken relative to that shape's center, placed
\* at position_a or at position_b, whichever has the larger projection on
\* the direction; center() is the midpoint of the two positions.
C18_SweptSupport ==
    (pc = "answered" /\ query.shape.kind = "sweep") =>
        LET s == query.shape
            offset == Sub(QuadFurthest(s.collider, query.direction), s.collider.position)
            at_a == Add(offset, s.position_a)
            at_b == Add(offset, s.position_b)
        IN  /\ query.point \in {at_a, at_b}
            /\ dot(query.point, query.direction)
                   = Max(dot(at_a, query.direction), dot(at_b, query.direction))
            /\ query.center = Add(s.position_a, s.position_b)

\* a sweep between two places, neither the center of the wrapped quad, has
\* answered with the point at position_a
C18_Witness ==
    /\ pc = "answered"
    /\ query.shape.kind = "sweep"
    /\ query.shape.collider.position \notin {query.shape.position_a, query.shape.position_b}
    /\ query.shape.position_a # query.shape.position_b
    /\ query.point = Add(Sub(QuadFurthest(query.shape.collider, query.direction),
                             query.shape.collider.position), query.shape.position_a)
    /\ query.center # Scale(query.shape.collider.position, 2)

\* the tasks whose last turn was a pairwise test, and the pair of it
Testers ==
    { i \in 1..Len(tasks) :
        /\ old_quads[i].dynamic
        /\ tasks[i].other_index > 1
        /\ tasks[i].other_index - 1 # i }

Other(i) == old_quads[tasks[i].other_index - 1]

\* the collision query of the last test of task i: of the swept shapes in
\* continuous mode, of the quads themselves in direct mode
Outer(i) ==
    IF sweeping_colliders
    THEN get_collision(
             SweepingCollider(old_quads[i], old_quads[i].position,
                 Add(Add(old_quads[i].position, tasks[i].before.position_delta),
                     Scale(Add(old_quads[i].velocity, tasks[i].before.velocity_delta),
                           ts))),
             SweepingCollider(Other(i), Other(i).position,
                 Add(Other(i).position, Scale(Other(i).velocity, ts))))
    ELSE get_collision(QuadShape(old_quads[i]), QuadShape(Other(i)))

\* the collision query of the two quads where they are
Inner(i) == get_collision(QuadShape(old_quads[i]), QuadShape(Other(i)))

Fired(i) == tasks[i].acc.fired # tasks[i].before.fired

\* C14: a pairwise test fires, and solved is false from then on, exactly
\* when the query of the pair returns a collision and
\* dot(other.velocity - quad.velocity, -normal) >= 0; a test that does not
\* fire leaves the position delta and the velocity delta as they were, and
\* solved is true while no test has fired.
C14_FiresOnApproachOnly ==
    pc = "pass" =>
        /\ \A i \in Testers :
               \E c \in {Outer(i)} :
                   /\ Fired(i) <=>
                          /\ c.kind = "some"
                          /\ dot(Sub(Other(i).velocity, old_quads[i].velocity),
                                 Neg(c.normal)) >= 0
                   /\ Fired(i) => ~solved
                   /\ ~Fired(i) => tasks[i].acc = tasks[i].before
        /\ (\A i \in 1..Len(tasks) : tasks[i].acc.fired = {}) => solved

\* a test of two bodies that overlap and move apart has left the deltas
\* its task had accumulated, and solved is still true
C14_Witness ==
    /\ pc = "pass"
    /\ solved
    /\ \E i \in Testers :
           /\ Outer(i).kind = "some"
           /\ tasks[i].acc = tasks[i].before

\* the position delta a firing test leaves when it takes
\* normal * depth / dynamic_count of collision c off
Pushed(i, c) ==
    Sub(tasks[i].before.position_delta,
        DivVec(NormalTimesDepth(c), IF Other(i).dynamic THEN 2 ELSE 1))

\* C15, as stated: every firing test takes normal * depth / dynamic_count of
\* the collision that fired off the position delta, in both modes.
C15_PushedByTheFiringCollision ==
    pc = "pass" =>
        \A i \in Testers :
            Fired(i) => tasks[i].acc.position_delta = Pushed(i, Outer(i))

\* C15, amended: a firing test takes normal * depth / dynamic_count of the
\* collision of the two quads where they are off the position delta, and
\* nothing when they do not collide there; in direct mode that collision is
\* the one that fired; dynamic_count is 1 for a static other and 2 for a
\* dynamic one.
C15_PushedByTheDirectCollision ==
    pc = "pass" =>
        \A i \in Testers :
            Fired(i) =>
                \E inner \in {Inner(i)} :
                    /\ tasks[i].acc.position_delta =
                           IF inner.kind = "some" THEN Pushed(i, inner)
                           ELSE tasks[i].before.position_delta
                    /\ ~sweeping_colliders => inner = Outer(i)

\* in continuous mode a test has fired on two quads that do not touch, and
\* one on a static body has pushed its task's body
C15_Witness ==
    /\ pc = "pass"
    /\ sweeping_colliders
    /\ \E i \in Testers :
           /\ Fired(i)
           /\ Inner(i).kind = "none"
           /\ tasks[i].acc.position_delta = tasks[i].before.position_delta

\* C16: gravity is applied before the first pass and nothing is integrated
\* before the loop has ended: at the head of the loop, no pass run, a dynamic
\* body has its velocity of entry plus gravity * dt and is where it was.
\* When the call has returned, a dynamic body for which no contact fired has
\* velocity v0 + gravity * dt, position p0 + (v0 + gravity * dt) * dt and
\* rotation r0 + angular_velocity * dt, and every body has the angular
\* velocity it had on entry.
C16_GravityThenIntegration ==
    /\ (pc = "loop" /\ iterations = 0) =>
           \A i \in 1..Len(entry) :
               /\ quads[i].position = entry[i].position
               /\ quads[i].rotation = entry[i].rotation
               /\ entry[i].dynamic =>
                      quads[i].velocity = Add(entry[i].velocity, Scale(gravity, ts))
    /\ (pc = "idle" /\ calls > 0) =>
           \A i \in 1..Len(entry) :
               /\ returned[i].angular_velocity = entry[i].angular_velocity
               /\ (entry[i].dynamic /\ \A h \in hits : h.body # i) =>
                      \E v \in {Add(entry[i].velocity, Scale(gravity, ts))} :
                          /\ returned[i].velocity = v
                          /\ returned[i].position = Add(entry[i].position, Scale(v, ts))
                          /\ returned[i].rotation =
                                 entry[i].rotation + entry[i].angular_velocity * ts

\* a call under gravity has returned in which no contact fired for a
\* turning dynamic body
C16_Witness ==
    /\ pc = "idle" /\ calls > 0
    /\ gravity # <<0, 0>>
    /\ \E i \in 1..Len(entry) :
           /\ entry[i].dynamic
           /\ entry[i].angular_velocity # 0
           /\ \A h \in hits : h.body # i

\* C20: at every point of every frame the fixed steps run so far, times
\* the interval, and the accumulator make up the time of the frames that
\* began with physics enabled, so a frame with physics disabled adds
\* nothing to the accumulator and runs no step; between frames the
\* accumulator is at most one interval, and inside the loop it is never
\* negative.
C20_CatchUp ==
    /\ steps * fixed_update_interval + fixed_update_time = elapsed
    /\ fixed_update_time >= 0
    /\ pc = "idle" => fixed_update_time <= fixed_update_interval
    /\ (pc = "frame" /\ ~physics_enabled) =>
           fixed_update_time <= fixed_update_interval

\* physics has been enabled, disabled and enabled again, fixed steps have
\* run, and a frame has ended with exactly one interval in the accumulator
C20_Witness ==
    /\ pc = "idle"
    /\ physics_enabled
    /\ edits = MaxToggles
    /\ steps >= 2
    /\ fixed_update_time = fixed_update_interval

====
